---- MODULE Spec2Model ----
(***************************************************************************)
(* Model of youtube.py: the interactive loop of the AI YouTube chatbot,    *)
(* its chat history, the Google/YouTube transcript harvester and the       *)
(* OpenAI gateway.  Text is modelled as sequences of tokens (one-character *)
(* strings where the code works character-wise).                           *)
(***************************************************************************)
EXTENDS Integers, Sequences, FiniteSets, TLC

VARIABLES
    chat_history,        \* global chat_history (line 124)
    youtube_on,          \* youtube_on (line 275)
    running,             \* running (line 274)
    pc,                  \* position of the main loop / of the harvester call
    user_input,          \* user_input (line 281)
    search_query,        \* search_query (lines 324-328)
    transcript_objects,  \* transcript_objects (lines 319, 334); transcripts (line 99)
    temp_chat_history,   \* temp_chat_history (line 320)
    soup,                \* soup inside google_search_youtube (line 57)
    fetch,               \* outcome of YouTubeTranscriptApi.get_transcript per candidate
    num_results,         \* num_results of get_youtube_search_results (line 93)
    error,               \* the uncaught exception that ended the process, if any
    screen,              \* the last block printed on the terminal
    completed_turns,     \* number of loop iterations that reached line 367
    cleared,             \* TRUE once the delete branch (line 299) has run
    model,               \* model (line 359)
    sent,                \* msgs_copy of the latest call of chat (lines 141-146)
    calls,               \* calls made to the collaborators during the current turn
    response,            \* the chunks of the stream not yet delivered (line 158)
    arrived,             \* the chunks of the stream delivered so far
    emitted,             \* the fragments printed at line 162, in order
    response_msg         \* response_msg (lines 156-161)

vars == <<chat_history, youtube_on, running, pc, user_input, search_query,
          transcript_objects, temp_chat_history, soup, fetch, num_results,
          error, screen, completed_turns, cleared,
          model, sent, calls, response, arrived, emitted, response_msg>>

----------------------------------------------------------------------------
(* Bounds of the model.                                                    *)

MaxTurns == 2    \* conversation turns started in one run of the main loop
MaxLinks == 1    \* anchors on a result page fetched by the main loop
MaxCands == 3    \* anchors on a result page given to the harvester alone
MaxN == 2        \* largest num_results given to the harvester alone
MaxPad == 7      \* characters by which the histories given to the tier choice vary
MaxChunks == 3   \* chunks in a stream given to the streaming loop alone

----------------------------------------------------------------------------
(* Characters and strings.                                                 *)

NBSP == "U+00A0"
NL == "\n"
TAB == "\t"
SPACE == " "
QUOTE == "\""

UpperToLower ==
    [c \in {"C", "D", "E", "H", "L", "Q", "T", "Y"} |->
        CASE c = "C" -> "c" [] c = "D" -> "d" [] c = "E" -> "e"
          [] c = "H" -> "h" [] c = "L" -> "l" [] c = "Q" -> "q"
          [] c = "T" -> "t" [] c = "Y" -> "y"]

\* the comparisons of lines 283-306 without .lower()
LowerNothing(s) == s

\* str.lower()
Lower(s) ==
    [i \in 1..Len(s) |-> IF s[i] \in DOMAIN UpperToLower THEN UpperToLower[s[i]] ELSE s[i]]

\* str.replace(old, new): leftmost non-overlapping occurrences, one pass
RECURSIVE Replace(_, _, _)
Replace(s, old, new) ==
    IF Len(s) < Len(old) THEN s
    ELSE IF SubSeq(s, 1, Len(old)) = old
         THEN new \o Replace(SubSeq(s, Len(old) + 1, Len(s)), old, new)
         ELSE <<Head(s)>> \o Replace(Tail(s), old, new)

Whitespace == {SPACE, NL, TAB}

RECURSIVE LStrip(_)
LStrip(s) == IF s # <<>> /\ Head(s) \in Whitespace THEN LStrip(Tail(s)) ELSE s

RECURSIVE RStrip(_)
RStrip(s) ==
    IF s # <<>> /\ s[Len(s)] \in Whitespace THEN RStrip(SubSeq(s, 1, Len(s) - 1)) ELSE s

\* str.strip()
Strip(s) == RStrip(LStrip(s))

\* ' '.join(parts)
RECURSIVE JoinSpace(_)
JoinSpace(parts) ==
    IF parts = <<>> THEN <<>>
    ELSE IF Len(parts) = 1 THEN parts[1]
    ELSE parts[1] \o <<SPACE>> \o JoinSpace(Tail(parts))

\* {**first, **later}: a key of later overrides the same key of first
DictMerge(first, later) == later @@ first

\* index of the first occurrence of token t in s, 0 when absent
IndexOf(s, t) ==
    IF \E i \in 1..Len(s) : s[i] = t
    THEN CHOOSE i \in 1..Len(s) : s[i] = t /\ \A j \in 1..(i - 1) : s[j] # t
    ELSE 0

----------------------------------------------------------------------------
(* The result page: anchors with an href (a token sequence) and the title  *)
(* of the h3 heading found near the anchor ("" when there is none).        *)

HrefWa == <<"/url?q", "=", "https://www.youtube.com/watch", "%3Fv%3D", "a", "&", "sa=U">>
HrefMa == <<"/url?q", "=", "https://m.youtube.com/watch", "%3Fv%3D", "a", "&", "sa=U">>
HrefWb == <<"/url?q", "=", "https://www.youtube.com/watch", "%3Fv%3D", "b", "&", "sa=U">>
HrefNoId == <<"/url?q", "=", "https://www.youtube.com/watch", "&", "sa=U">>
HrefOther == <<"/url?q", "=", "https://example.com/", "&", "sa=U">>
HrefNav == <<"/search?q", "=", "https://www.youtube.com/watch", "&", "sa=U">>
HrefNoAmp == <<"/url?q", "=", "https://www.youtube.com/watch", "%3Fv%3D", "b">>

Links ==
    { [href |-> HrefWa, title |-> "Moon landing"],
      [href |-> HrefMa, title |-> "Moon landing (mobile)"],
      [href |-> HrefWb, title |-> ""],
      [href |-> HrefNoId, title |-> "Watch"],
      [href |-> HrefOther, title |-> "Other site"],
      [href |-> HrefNav, title |-> ""],
      [href |-> HrefNoAmp, title |-> "Cut"] }

SeqsUpTo(S, n) == UNION { [1..k -> S] : k \in 0..n }

\* what get_soup returns: None after a request error, else the parsed page
NoneSoup == [none |-> TRUE, anchors |-> <<>>]
Pages(links, n) ==
    {NoneSoup} \cup { [none |-> FALSE, anchors |-> a] : a \in SeqsUpTo(links, n) }

\* the anchors the main loop is run on, and those the harvester alone is run on
MainLinks == { l \in Links : l.href \in {HrefWa, HrefWb, HrefNoAmp, HrefNav} }
HarvestLinks == { l \in Links : l.href \in {HrefWa, HrefMa, HrefWb, HrefNoId, HrefOther} }

\* what YouTubeTranscriptApi.get_transcript does for one candidate
DirtySegment == [text |-> <<"a", NBSP, "b", NL, "c">>, start |-> 0, duration |-> 2]
CleanSegment == [text |-> <<"d">>, start |-> 2, duration |-> 3]
FetchFails == [ok |-> FALSE, segments |-> <<>>]
FetchEmpty == [ok |-> TRUE, segments |-> <<>>]
FetchTwo == [ok |-> TRUE, segments |-> <<DirtySegment, CleanSegment>>]
Outcomes == {FetchFails, FetchEmpty, FetchTwo}

----------------------------------------------------------------------------
(* google_search_youtube and get_youtube_search_results.  A call returns   *)
(* [raised |-> the exception or "", value |-> the returned list].          *)

Returned(v) == [raised |-> "", value |-> v]
Raised(e) == [raised |-> e, value |-> <<>>]

\* link['href'].startswith('/url?q=')
IsResultLink(link) ==
    Len(link.href) >= 2 /\ link.href[1] = "/url?q" /\ link.href[2] = "="

\* 'youtube.com/watch' in url
IsWatchUrl(url) ==
    \E i \in 1..Len(url) :
        url[i] \in {"https://www.youtube.com/watch", "https://m.youtube.com/watch"}

\* urllib.parse.unquote
Unquote(url) == [i \in 1..Len(url) |-> IF url[i] = "%3Fv%3D" THEN "?v=" ELSE url[i]]

\* url[url.index('=')+1 : url.index('&')] then unquote
CleanLink(href) == Unquote(SubSeq(href, IndexOf(href, "=") + 1, IndexOf(href, "&") - 1))

RECURSIVE SearchLoop(_, _)
SearchLoop(result_links, results) ==
    IF result_links = <<>> THEN Returned(results)
    ELSE LET link == Head(result_links)
             rest == Tail(result_links)
         IN  IF ~IsWatchUrl(link.href) THEN SearchLoop(rest, results)
             ELSE IF IndexOf(link.href, "&") = 0 THEN Raised("ValueError")
             ELSE LET url == CleanLink(link.href)
                  IN  IF \E i \in 1..Len(results) : results[i].url = url
                      THEN SearchLoop(rest, results)
                      ELSE SearchLoop(rest, Append(results, [url |-> url, title |-> link.title]))

google_search_youtube(page) ==
    IF page.none THEN Raised("TypeError")
    ELSE SearchLoop(SelectSeq(page.anchors, IsResultLink), <<>>)

\* video['url'].split('v=')[1]
HasVideoId(url) == IndexOf(url, "?v=") # 0
VideoId(url) ==
    LET after == SubSeq(url, IndexOf(url, "?v=") + 1, Len(url))
    IN  IF IndexOf(after, "?v=") = 0 THEN after
        ELSE SubSeq(after, 1, IndexOf(after, "?v=") - 1)

\* {'text': t['text'].replace(u'\xa0', u' ').replace('\n', ' '), **t}
StoredSegment(t) ==
    DictMerge([text |-> Replace(Replace(t.text, <<NBSP>>, <<SPACE>>), <<NL>>, <<SPACE>>)], t)

TranscriptObject(video, transcript) ==
    [url |-> <<"https://www.youtube.com/watch?v=">> \o VideoId(video.url),
     title |-> video.title,
     video_id |-> VideoId(video.url),
     transcript |-> [i \in 1..Len(transcript) |-> StoredSegment(transcript[i])]]

\* the loop without the break of lines 101-102
RECURSIVE HarvestLoopNoBreak(_, _, _, _, _)
HarvestLoopNoBreak(videos, i, api, n, transcripts) ==
    IF i > Len(videos) THEN transcripts
    ELSE IF ~HasVideoId(videos[i].url) \/ ~api[i].ok
         THEN HarvestLoopNoBreak(videos, i + 1, api, n, transcripts)
         ELSE HarvestLoopNoBreak(videos, i + 1, api, n,
                                 Append(transcripts, TranscriptObject(videos[i], api[i].segments)))

\* the loop of lines 100-115 from candidate i on
RECURSIVE HarvestLoop(_, _, _, _, _)
HarvestLoop(videos, i, api, n, transcripts) ==
    IF i > Len(videos) \/ Len(transcripts) >= n THEN transcripts
    ELSE IF ~HasVideoId(videos[i].url) \/ ~api[i].ok
         THEN HarvestLoop(videos, i + 1, api, n, transcripts)
         ELSE HarvestLoop(videos, i + 1, api, n,
                          Append(transcripts, TranscriptObject(videos[i], api[i].segments)))

\* the number of calls of get_transcript (line 106) the loop makes from candidate i on
RECURSIVE FetchCount(_, _, _, _, _)
FetchCount(videos, i, api, n, got) ==
    IF i > Len(videos) \/ got >= n THEN 0
    ELSE IF ~HasVideoId(videos[i].url) THEN FetchCount(videos, i + 1, api, n, got)
    ELSE 1 + FetchCount(videos, i + 1, api, n, IF api[i].ok THEN got + 1 ELSE got)

get_youtube_search_results(page, api, n) ==
    LET videos == google_search_youtube(page)
    IN  IF videos.raised # "" THEN videos
        ELSE Returned(HarvestLoop(videos.value, 1, api, n, <<>>))

----------------------------------------------------------------------------
(* Messages and prompts.                                                   *)

SystemMessage ==
    [role |-> "system",
     content |-> <<"You are a helpful AI assistant ... Current Date: ", "today">>]

UserMessage(text) == [role |-> "user", content |-> text]

search_query_prompt(text) ==
    [role |-> "user",
     content |-> <<"Please generate a concise natural language search query ...:">>
                 \o text \o <<"Search Query:">>]

context_final_prompt(text) ==
    [role |-> "user",
     content |-> <<"Please respond to the following user input with the context provided:">>
                 \o text \o <<"Please cite the context in your response ...">>]

\* transcript[-1]['start'] + transcript[-1]['duration'] - transcript[0]['start']
VideoDuration(transcript) ==
    transcript[Len(transcript)].start + transcript[Len(transcript)].duration
        - transcript[1].start

\* the message of lines 341-351
ContextMessage(obj) ==
    [role |-> "assistant",
     content |-> <<"CONTEXT", "- YouTube URL: ">> \o obj.url
                 \o <<"- Video Title: ", obj.title,
                      "- Video Duration: ", ToString(VideoDuration(obj.transcript)),
                      "- YouTube Transcript:">>
                 \o JoinSpace([i \in 1..Len(obj.transcript) |-> obj.transcript[i].text])]

\* index of the first transcript object whose transcript is empty, 0 if none
FirstEmpty(objs) ==
    IF \E i \in 1..Len(objs) : objs[i].transcript = <<>>
    THEN CHOOSE i \in 1..Len(objs) :
             objs[i].transcript = <<>> /\ \A j \in 1..(i - 1) : objs[j].transcript # <<>>
    ELSE 0

\* the loop of lines 339-351 over the first k transcript objects
ContextMessages(objs, k) == [i \in 1..k |-> ContextMessage(objs[i])]

\* the reply message of lines 367-371
ReplyMessage(text, objs) == [role |-> "system", content |-> text, context |-> objs]

----------------------------------------------------------------------------
(* The model backend: what client.chat.completions.create can deliver.     *)

\* texts the non-streamed call of line 324 can return
RawQueries ==
    { <<SPACE, QUOTE, "a", SPACE, SPACE, SPACE, "b", QUOTE, NL>> }

\* lines 326-328
CleanQuery(raw) ==
    Replace(Strip(Replace(Replace(Replace(raw, <<NL>>, <<SPACE>>), <<TAB>>, <<SPACE>>),
                          <<SPACE, SPACE>>, <<SPACE>>)),
            <<QUOTE>>, <<>>)

\* a streamed chunk: choices may be empty, delta.content may be None
Chunk(text) == [choices |-> TRUE, none |-> FALSE, content |-> text]
NoneChunk == [choices |-> TRUE, none |-> TRUE, content |-> <<>>]
NoChoicesChunk == [choices |-> FALSE, none |-> TRUE, content |-> <<>>]

Streams ==
    { <<Chunk(<<"o">>), NoneChunk, Chunk(<<"k">>)>>,
      <<NoChoicesChunk, Chunk(<<"n", "o">>)>> }

\* msg.choices[0].delta.content or "" (line 160)
CurrentMsg(msg) == IF msg.none THEN <<>> ELSE msg.content

\* line 161 adding the fragment in front of response_msg
AccumulatedInFront(text, msg) == IF msg.choices THEN CurrentMsg(msg) \o text ELSE text

\* lines 159-161: one chunk added to response_msg
Accumulated(text, msg) == IF msg.choices THEN text \o CurrentMsg(msg) ELSE text

\* lines 159-162: one chunk printed
Printed(out, msg) == IF msg.choices THEN Append(out, CurrentMsg(msg)) ELSE out

\* lines 156-163: response_msg accumulated over the stream
RECURSIVE StreamedText(_)
StreamedText(chunks) ==
    IF chunks = <<>> THEN <<>>
    ELSE Accumulated(StreamedText(SubSeq(chunks, 1, Len(chunks) - 1)),
                     chunks[Len(chunks)])

\* lines 158-162: what the loop prints over the stream
RECURSIVE Emitted(_)
Emitted(chunks) ==
    IF chunks = <<>> THEN <<>>
    ELSE Printed(Emitted(SubSeq(chunks, 1, Len(chunks) - 1)), chunks[Len(chunks)])

\* lines 141-146: msgs_copy keeps role and content only
StripKeys(msgs) ==
    [i \in 1..Len(msgs) |-> [role |-> msgs[i].role, content |-> msgs[i].content]]

\* sum([len(chat_msg['content']) for chat_msg in temp_chat_history]) (line 358)
RECURSIVE TotalLength(_)
TotalLength(history) ==
    IF history = <<>> THEN 0
    ELSE Len(Head(history).content) + TotalLength(Tail(history))

Threshold == 50000

\* line 359 with >= in place of >
ModelForAtLeast(history) ==
    IF TotalLength(history) >= Threshold THEN "gpt-4-1106-preview" ELSE "gpt-3.5-turbo-1106"

\* line 359
ModelFor(history) ==
    IF TotalLength(history) > Threshold THEN "gpt-4-1106-preview" ELSE "gpt-3.5-turbo-1106"

----------------------------------------------------------------------------
(* The input line and the command words.                                   *)

Quit == {<<"q", "u", "i", "t">>, <<"q">>}
Help == {<<"h", "e", "l", "p">>}
History == {<<"h", "i", "s", "t", "o", "r", "y">>, <<"h">>}
Delete == {<<"d", "e", "l", "e", "t", "e">>, <<"d">>}
Clear == {<<"c", "l", "e", "a", "r">>, <<"c">>}
Youtube == {<<"y", "o", "u", "t", "u", "b", "e">>, <<"y">>}
CommandWords == Quit \cup Help \cup History \cup Delete \cup Clear \cup Youtube

Inputs ==
    { <<"q">>, <<"Q", "u", "i", "t">>,
      <<"H", "e", "l", "p">>,
      <<"h">>,
      <<"D">>, <<"D", "E", "L", "e", "t", "e">>,
      <<"C">>,
      <<"y">>,
      <<"D", "o">> }

----------------------------------------------------------------------------
(* Initial state: module level of youtube.py and lines 274-277.            *)

NoCall == [none |-> FALSE, anchors |-> <<>>]
NoCalls == [derive |-> 0, get_soup |-> 0, get_transcript |-> 0, generate |-> 0]
NoFetch == [i \in 1..MaxCands |-> FetchFails]

Init ==
    /\ chat_history = <<SystemMessage>>
    /\ youtube_on = TRUE
    /\ running = TRUE
    /\ pc = "input"
    /\ user_input = <<>>
    /\ search_query = <<>>
    /\ transcript_objects = <<>>
    /\ temp_chat_history = <<>>
    /\ soup = NoCall
    /\ fetch = NoFetch
    /\ num_results = 3
    /\ error = ""
    /\ screen = "help"
    /\ completed_turns = 0
    /\ cleared = FALSE
    /\ model = ""
    /\ sent = <<>>
    /\ calls = NoCalls
    /\ response = <<>>
    /\ arrived = <<>>
    /\ emitted = <<>>
    /\ response_msg = <<>>

AtPrompt == pc = "input" /\ running /\ error = ""

harvester == <<soup, fetch, num_results>>
stream == <<response, arrived, emitted, response_msg>>
gateway == <<model, sent, calls, stream>>
locals == <<user_input, search_query, transcript_objects, temp_chat_history>>

----------------------------------------------------------------------------
(* The main loop, lines 278-374.  An uncaught exception ends the process:  *)
(* pc stays at the statement that raised it and error names it.            *)

\* lines 283-286
QuitCommand ==
    /\ AtPrompt
    /\ \E text \in Inputs :
        /\ Lower(text) \in Quit
        /\ user_input' = text
    /\ running' = FALSE
    /\ pc' = "exit"
    /\ screen' = "goodbye"
    /\ UNCHANGED <<chat_history, youtube_on, search_query, transcript_objects,
                   temp_chat_history, harvester, error, completed_turns, cleared, gateway>>

\* lines 288-290
HelpCommand ==
    /\ AtPrompt
    /\ \E text \in Inputs :
        /\ Lower(text) \in Help
        /\ user_input' = text
    /\ screen' = "help"
    /\ UNCHANGED <<chat_history, youtube_on, running, pc, search_query, transcript_objects,
                   temp_chat_history, harvester, error, completed_turns, cleared, gateway>>

\* print_chat_history reads transcript[0] of every context item (line 224)
HistoryPrintable(history) ==
    \A i \in 1..Len(history) :
        "context" \in DOMAIN history[i] => FirstEmpty(history[i].context) = 0

\* lines 292-294
HistoryCommand ==
    /\ AtPrompt
    /\ \E text \in Inputs :
        /\ Lower(text) \in History
        /\ user_input' = text
    /\ screen' = "history"
    /\ error' = IF HistoryPrintable(chat_history) THEN "" ELSE "IndexError"
    /\ UNCHANGED <<chat_history, youtube_on, running, pc, search_query, transcript_objects,
                   temp_chat_history, harvester, completed_turns, cleared, gateway>>

\* chat_history = [] (line 299)
DeletedHistory == <<>>

\* lines 296-300
DeleteCommand ==
    /\ AtPrompt
    /\ \E text \in Inputs :
        /\ Lower(text) \in Delete
        /\ user_input' = text
    /\ chat_history' = DeletedHistory
    /\ cleared' = TRUE
    /\ screen' = "deleted"
    /\ UNCHANGED <<youtube_on, running, pc, search_query, transcript_objects,
                   temp_chat_history, harvester, error, completed_turns, gateway>>

\* lines 302-304
ClearCommand ==
    /\ AtPrompt
    /\ \E text \in Inputs :
        /\ Lower(text) \in Clear
        /\ user_input' = text
    /\ screen' = "cleared"
    /\ UNCHANGED <<chat_history, youtube_on, running, pc, search_query, transcript_objects,
                   temp_chat_history, harvester, error, completed_turns, cleared, gateway>>

\* lines 306-310
YoutubeCommand ==
    /\ AtPrompt
    /\ \E text \in Inputs :
        /\ Lower(text) \in Youtube
        /\ user_input' = text
    /\ youtube_on' = ~youtube_on
    /\ screen' = "youtube mode"
    /\ UNCHANGED <<chat_history, running, pc, search_query, transcript_objects,
                   temp_chat_history, harvester, error, completed_turns, cleared, gateway>>

\* TurnEntry without the append of lines 313-316
TurnEntryNoUserMessage(history, text, augment) ==
    IF augment THEN Append(history, search_query_prompt(text)) ELSE history

\* line 323 without its guard of line 321
TurnEntryAlwaysPrompt(history, text, augment) ==
    Append(Append(history, UserMessage(text)), search_query_prompt(text))

\* lines 313-316 and 323: what the turn appends before its first model call
TurnEntry(history, text, augment) ==
    IF augment
    THEN Append(Append(history, UserMessage(text)), search_query_prompt(text))
    ELSE Append(history, UserMessage(text))

\* the loop without line 319
KeepContext(previous) == previous

\* transcript_objects = [] (line 319)
NoContext(previous) == <<>>

\* lines 312-323 (and 357-364 when YouTube mode is off): any other input starts a turn
StartTurn ==
    /\ AtPrompt
    /\ completed_turns < MaxTurns
    /\ \E text \in Inputs :
        /\ Lower(text) \notin CommandWords
        /\ user_input' = text
        /\ chat_history' = TurnEntry(chat_history, text, youtube_on)
        /\ temp_chat_history' = Append(chat_history, UserMessage(text))
    /\ transcript_objects' = NoContext(transcript_objects)
    /\ pc' = IF youtube_on THEN "derive" ELSE "generate"
    /\ IF youtube_on
       THEN /\ sent' = StripKeys(chat_history')
            /\ calls' = [NoCalls EXCEPT !.derive = 1]
            /\ model' = model
       ELSE /\ sent' = StripKeys(temp_chat_history')
            /\ calls' = [NoCalls EXCEPT !.generate = 1]
            /\ model' = ModelFor(temp_chat_history')
    /\ screen' = "turn"
    /\ UNCHANGED <<youtube_on, running, search_query, harvester, error,
                   completed_turns, cleared, stream>>

\* the loop without line 330
PopNothing(history) == history

\* line 330 run twice
PopTwo(history) == SubSeq(history, 1, Len(history) - 2)

\* chat_history.pop() (line 330)
Pop(history) == SubSeq(history, 1, Len(history) - 1)

\* lines 324-331: the query-derivation call returns
DeriveQuery ==
    /\ pc = "derive" /\ error = ""
    /\ \E raw \in RawQueries : search_query' = CleanQuery(raw)
    /\ chat_history' = Pop(chat_history)
    /\ pc' = "harvest"
    /\ screen' = "search query"
    /\ UNCHANGED <<youtube_on, running, user_input, transcript_objects, temp_chat_history,
                   harvester, error, completed_turns, cleared, gateway>>

\* line 324: client.chat.completions.create raises (line 149)
DeriveQueryFails ==
    /\ pc = "derive" /\ error = ""
    /\ error' = "APIError"
    /\ UNCHANGED <<chat_history, youtube_on, running, pc, user_input, search_query,
                   transcript_objects, temp_chat_history, harvester, screen,
                   completed_turns, cleared, gateway>>

\* lines 334-364: harvest returns, the contexts are added to the copy and the
\* copy is sent for the reply
HarvestContext ==
    /\ pc = "harvest" /\ error = ""
    /\ \E page \in Pages(MainLinks, MaxLinks), api \in [1..MaxLinks -> Outcomes] :
        LET found == get_youtube_search_results(page, api, 3)
            bad == FirstEmpty(found.value)
            fetches == FetchCount(google_search_youtube(page).value, 1, api, 3, 0)
        IN  /\ found.raised = ""
            /\ transcript_objects' = found.value
            /\ IF bad = 0
               THEN /\ temp_chat_history' =
                            Append(temp_chat_history \o
                                       ContextMessages(found.value, Len(found.value)),
                                   context_final_prompt(user_input))
                    /\ pc' = "generate"
                    /\ error' = ""
                    /\ model' = ModelFor(temp_chat_history')
                    /\ sent' = StripKeys(temp_chat_history')
                    /\ calls' = [calls EXCEPT !.get_soup = 1, !.get_transcript = fetches,
                                              !.generate = 1]
               ELSE /\ temp_chat_history' =
                            temp_chat_history \o ContextMessages(found.value, bad - 1)
                    /\ pc' = "assemble"
                    /\ error' = "IndexError"
                    /\ calls' = [calls EXCEPT !.get_soup = 1, !.get_transcript = fetches]
                    /\ UNCHANGED <<model, sent>>
    /\ screen' = "contexts"
    /\ UNCHANGED <<chat_history, youtube_on, running, user_input, search_query,
                   harvester, completed_turns, cleared, stream>>

\* line 334: google_search_youtube raises inside get_youtube_search_results
HarvestRaises ==
    /\ pc = "harvest" /\ error = ""
    /\ \E page \in Pages(MainLinks, MaxLinks), api \in [1..MaxLinks -> Outcomes] :
        LET found == get_youtube_search_results(page, api, 3)
        IN  /\ found.raised # ""
            /\ error' = found.raised
            /\ soup' = page
    /\ calls' = [calls EXCEPT !.get_soup = 1]
    /\ UNCHANGED <<chat_history, youtube_on, running, pc, user_input, search_query,
                   transcript_objects, temp_chat_history, fetch, num_results, screen,
                   completed_turns, cleared, model, sent, stream>>

\* the reply appended to temp_chat_history instead of chat_history
CommitTransient(history, transient, reply) == Append(transient, reply)

\* chat_history.append of lines 367-371
Commit(history, transient, reply) == Append(history, reply)

\* lines 364-374: the reply is streamed and committed
GenerateReply ==
    /\ pc = "generate" /\ error = ""
    /\ \E chunks \in Streams :
        /\ chat_history' =
               Commit(chat_history, temp_chat_history,
                      ReplyMessage(StreamedText(chunks), transcript_objects))
        /\ response' = <<>>
        /\ arrived' = chunks
        /\ emitted' = Emitted(chunks)
        /\ response_msg' = StreamedText(chunks)
    /\ completed_turns' = completed_turns + 1
    /\ pc' = "input"
    /\ screen' = "reply"
    /\ UNCHANGED <<youtube_on, running, user_input, search_query, transcript_objects,
                   temp_chat_history, harvester, error, cleared, model, sent, calls>>

\* line 364: client.chat.completions.create raises (line 149)
GenerateReplyFails ==
    /\ pc = "generate" /\ error = ""
    /\ error' = "APIError"
    /\ UNCHANGED <<chat_history, youtube_on, running, pc, user_input, search_query,
                   transcript_objects, temp_chat_history, harvester, screen,
                   completed_turns, cleared, gateway>>

Next ==
    \/ QuitCommand
    \/ HelpCommand
    \/ HistoryCommand
    \/ DeleteCommand
    \/ ClearCommand
    \/ YoutubeCommand
    \/ StartTurn
    \/ DeriveQuery
    \/ DeriveQueryFails
    \/ HarvestContext
    \/ HarvestRaises
    \/ GenerateReply
    \/ GenerateReplyFails

Spec == Init /\ [][Next]_vars

----------------------------------------------------------------------------
(* The harvester alone: get_youtube_search_results(query, num_results) on  *)
(* every small result page, transcript outcome and num_results.            *)

HarvestInit ==
    /\ chat_history = <<SystemMessage>>
    /\ youtube_on = TRUE
    /\ running = TRUE
    /\ pc = "harvest"
    /\ user_input = <<>>
    /\ search_query = <<>>
    /\ transcript_objects = <<>>
    /\ temp_chat_history = <<>>
    /\ soup \in Pages(HarvestLinks, MaxCands)
    /\ fetch \in [1..MaxCands -> Outcomes]
    /\ num_results \in 1..MaxN
    /\ error = ""
    /\ screen = ""
    /\ completed_turns = 0
    /\ cleared = FALSE
    /\ model = ""
    /\ sent = <<>>
    /\ calls = NoCalls
    /\ response = <<>>
    /\ arrived = <<>>
    /\ emitted = <<>>
    /\ response_msg = <<>>

\* lines 93-117 return
HarvestReturns ==
    /\ pc = "harvest" /\ error = ""
    /\ LET found == get_youtube_search_results(soup, fetch, num_results)
       IN  /\ found.raised = ""
           /\ transcript_objects' = found.value
    /\ pc' = "returned"
    /\ UNCHANGED <<chat_history, youtube_on, running, user_input, search_query,
                   temp_chat_history, harvester, error, screen, completed_turns, cleared, gateway>>

\* line 97: the exception of google_search_youtube passes through
HarvestPropagates ==
    /\ pc = "harvest" /\ error = ""
    /\ LET found == get_youtube_search_results(soup, fetch, num_results)
       IN  /\ found.raised # ""
           /\ error' = found.raised
    /\ UNCHANGED <<chat_history, youtube_on, running, pc, user_input, search_query,
                   transcript_objects, temp_chat_history, harvester, screen,
                   completed_turns, cleared, gateway>>

HarvestNext == HarvestReturns \/ HarvestPropagates

HarvestSpec == HarvestInit /\ [][HarvestNext]_vars

----------------------------------------------------------------------------
(* The tier choice alone: lines 357-359 on transient histories whose total *)
(* length lies around the threshold.                                       *)

\* a text of n characters
Text(n) == [i \in 1..n |-> "x"]

TierInit ==
    /\ chat_history = <<SystemMessage>>
    /\ youtube_on = TRUE
    /\ running = TRUE
    /\ pc = "select"
    /\ user_input = <<>>
    /\ search_query = <<>>
    /\ transcript_objects = <<>>
    /\ \E a \in (Threshold - MaxPad)..(Threshold + 1), b \in 0..MaxPad :
        temp_chat_history = <<[role |-> "system", content |-> Text(a)], UserMessage(Text(b))>>
    /\ soup = NoCall
    /\ fetch = NoFetch
    /\ num_results = 3
    /\ error = ""
    /\ screen = ""
    /\ completed_turns = 0
    /\ cleared = FALSE
    /\ model = ""
    /\ sent = <<>>
    /\ calls = NoCalls
    /\ response = <<>>
    /\ arrived = <<>>
    /\ emitted = <<>>
    /\ response_msg = <<>>

\* lines 357-359
SelectModel ==
    /\ pc = "select"
    /\ model' = ModelFor(temp_chat_history)
    /\ pc' = "selected"
    /\ UNCHANGED <<chat_history, youtube_on, running, locals, harvester, error, screen,
                   completed_turns, cleared, sent, calls, stream>>

TierSpec == TierInit /\ [][SelectModel]_vars

----------------------------------------------------------------------------
(* The streaming loop alone: lines 156-163 of chat, one chunk per step, on *)
(* every stream of up to MaxChunks chunks.                                 *)

ChunkKinds == {Chunk(<<"a">>), Chunk(<<"b", "c">>), NoneChunk, NoChoicesChunk}

StreamInit ==
    /\ chat_history = <<SystemMessage>>
    /\ youtube_on = TRUE
    /\ running = TRUE
    /\ pc = "stream"
    /\ user_input = <<>>
    /\ search_query = <<>>
    /\ transcript_objects = <<>>
    /\ temp_chat_history = <<>>
    /\ soup = NoCall
    /\ fetch = NoFetch
    /\ num_results = 3
    /\ error = ""
    /\ screen = ""
    /\ completed_turns = 0
    /\ cleared = FALSE
    /\ model = ""
    /\ sent = <<>>
    /\ calls = NoCalls
    /\ response \in SeqsUpTo(ChunkKinds, MaxChunks)
    /\ arrived = <<>>
    /\ emitted = <<>>
    /\ response_msg = <<>>

\* lines 158-162: one iteration of `for msg in response`
StreamChunk ==
    /\ pc = "stream" /\ error = ""
    /\ response # <<>>
    /\ response' = Tail(response)
    /\ arrived' = Append(arrived, Head(response))
    /\ response_msg' = Accumulated(response_msg, Head(response))
    /\ emitted' = Printed(emitted, Head(response))
    /\ UNCHANGED <<chat_history, youtube_on, running, pc, locals, harvester, error, screen,
                   completed_turns, cleared, model, sent, calls>>

\* line 158: the stream raises while it is iterated
StreamFails ==
    /\ pc = "stream" /\ error = ""
    /\ response # <<>>
    /\ error' = "APIError"
    /\ UNCHANGED <<chat_history, youtube_on, running, pc, locals, harvester, screen,
                   completed_turns, cleared, gateway>>

\* line 163: the stream is exhausted and chat returns response_msg
StreamReturns ==
    /\ pc = "stream" /\ error = ""
    /\ response = <<>>
    /\ pc' = "returned"
    /\ UNCHANGED <<chat_history, youtube_on, running, locals, harvester, error, screen,
                   completed_turns, cleared, gateway>>

StreamNext == StreamChunk \/ StreamFails \/ StreamReturns

StreamSpec == StreamInit /\ [][StreamNext]_vars

----------------------------------------------------------------------------
(* Properties of the main loop (Spec).                                     *)

IsReply(msg) == "context" \in DOMAIN msg

\* C1: after the delete command the history is exactly the one system message.
C1_DeleteLeavesSystemMessage ==
    [][DeleteCommand => chat_history' = <<SystemMessage>>]_vars

\* C2: while the loop waits for input and the history was never deleted, the
\* history holds 1 + 2*k messages after k committed turns: the system message,
\* then one user message and one reply per committed turn.
C2_HistoryLength ==
    (AtPrompt /\ ~cleared) =>
        /\ Len(chat_history) = 1 + 2 * completed_turns
        /\ chat_history[1] = SystemMessage
        /\ \A k \in 1..completed_turns :
            /\ chat_history[2 * k].role = "user"
            /\ ~IsReply(chat_history[2 * k])
            /\ IsReply(chat_history[2 * k + 1])

C2_Witness ==
    /\ AtPrompt /\ ~cleared
    /\ completed_turns = 2
    /\ Len(chat_history) = 5
    /\ chat_history[3].context # <<>>
    /\ chat_history[5].context = <<>>

\* C3: every committed reply is stored with role assistant.
C3_RepliesAreAssistant ==
    \A i \in 1..Len(chat_history) :
        IsReply(chat_history[i]) => chat_history[i].role = "assistant"

\* C4: when the page fetch returns its failure sentinel, the search raises nothing
\* (the harvest is the empty list and the turn goes on to its reply).
C4_SearchFailureDoesNotRaise ==
    soup = NoneSoup => error = ""

\* C5: a failing query-derivation call does not abort the turn.
C5_DeriveFailureDoesNotAbort ==
    ~(pc = "derive" /\ error # "")

\* C6: when the reply-generation call fails, no reply has been appended and the
\* user message of that turn is the last message of the history.
C6_FailedGenerationKeepsUserMessage ==
    (pc = "generate" /\ error # "") =>
        /\ chat_history # <<>>
        /\ chat_history[Len(chat_history)] = UserMessage(user_input)
        /\ Len(chat_history) <= Len(temp_chat_history)
        /\ SubSeq(temp_chat_history, 1, Len(chat_history)) = chat_history

C6_Witness ==
    /\ pc = "generate" /\ error = "APIError"
    /\ transcript_objects # <<>>
    /\ completed_turns = 1

\* C7: once the query-derivation call has ended, on either outcome, the history
\* holds no search-query prompt.
C7_QueryPromptRemoved ==
    (pc # "derive" \/ error # "") =>
        \A i \in 1..Len(chat_history) :
            chat_history[i] # search_query_prompt(user_input)

\* C13: the cleaned search query holds no newline, tab or double quote, no two
\* consecutive spaces and no whitespace at either end.
C13_QueryIsClean ==
    /\ \A i \in 1..Len(search_query) : search_query[i] \notin {NL, TAB, QUOTE}
    /\ \A i \in 1..(Len(search_query) - 1) :
        ~(search_query[i] = SPACE /\ search_query[i + 1] = SPACE)
    /\ search_query # <<>> =>
        /\ search_query[1] \notin Whitespace
        /\ search_query[Len(search_query)] \notin Whitespace

\* the messages added to the copy of line 320 during the turn (lines 341-355)
TransientCount == IF youtube_on THEN Len(transcript_objects) + 1 ELSE 0

\* C14: right after a turn commits, the history is the history as copied at the
\* start of the turn (ending with the user message) plus the reply, and holds
\* none of the context messages nor the citation prompt added to the copy.
C14_TransientNeverWrittenBack ==
    (AtPrompt /\ screen = "reply") =>
        LET kept == Len(temp_chat_history) - TransientCount
        IN  /\ kept >= 1
            /\ Len(chat_history) = kept + 1
            /\ SubSeq(chat_history, 1, kept) = SubSeq(temp_chat_history, 1, kept)
            /\ chat_history[kept] = UserMessage(user_input)
            /\ IsReply(chat_history[kept + 1])
            /\ \A i \in 1..Len(chat_history), j \in (kept + 1)..Len(temp_chat_history) :
                /\ chat_history[i].content # temp_chat_history[j].content
                /\ chat_history[i].content # context_final_prompt(user_input).content

C14_Witness ==
    /\ AtPrompt /\ screen = "reply"
    /\ youtube_on
    /\ transcript_objects # <<>>
    /\ Len(temp_chat_history) = Len(chat_history) + 1

\* C15: every message list sent to the model starts with the system message.
C15_SystemMessageSentFirst ==
    sent # <<>> => sent[1] = [role |-> "system", content |-> SystemMessage.content]

\* the step appends to the history, or leaves it as it is
Extends(old, new) == Len(old) <= Len(new) /\ SubSeq(new, 1, Len(old)) = old

\* the step is the reset of the delete command: no earlier turn survives
ResetsHistory == DeleteCommand /\ chat_history' \in {<<>>, <<SystemMessage>>}

\* the step removes the search-query prompt of the current turn from the end
RemovesQueryPrompt ==
    /\ chat_history # <<>>
    /\ chat_history[Len(chat_history)] = search_query_prompt(user_input)
    /\ chat_history' = SubSeq(chat_history, 1, Len(chat_history) - 1)

\* C16 as stated: every step appends to the history at its end or is the reset
\* of the delete command; no message is removed in any other step.
C16_OnlyAppendOrReset ==
    [][Extends(chat_history, chat_history') \/ ResetsHistory]_vars

\* C16 amended: every step appends to the history at its end, removes the
\* search-query prompt of the current turn from its end, or is the reset of the
\* delete command.
C16_AppendResetOrPromptRemoval ==
    [][Extends(chat_history, chat_history') \/ ResetsHistory \/ RemovesQueryPrompt]_vars

C16_Witness ==
    /\ pc = "harvest" /\ error = ""
    /\ completed_turns = 1
    /\ chat_history[Len(chat_history)] = UserMessage(user_input)

\* the context messages among the messages sent for the reply
IsInjected(msg) == msg.content # <<>> /\ msg.content[1] = "CONTEXT"

Injected == SelectSeq(sent, IsInjected)

C18_ModeOffSendsHistory ==
    (pc = "generate" /\ ~youtube_on) =>
        /\ calls.derive = 0 /\ calls.get_soup = 0 /\ calls.get_transcript = 0
        /\ calls.generate = 1
        /\ sent = StripKeys(chat_history)
        /\ chat_history[Len(chat_history)] = UserMessage(user_input)

C18_Witness ==
    /\ pc = "generate" /\ ~youtube_on /\ error = ""
    /\ completed_turns = 1
    /\ calls.generate = 1
    /\ Len(sent) >= 4

\* the letter is the letter of the command word, in lower or in upper case
SameLetter(c, w) == c = w \/ (c \in DOMAIN UpperToLower /\ UpperToLower[c] = w)

\* the input is one of the words, in any mix of cases
IsWord(text, words) ==
    \E w \in words : Len(text) = Len(w) /\ \A i \in 1..Len(w) : SameLetter(text[i], w[i])

\* the step reads the input line user_input' at the prompt
ReadsInput == AtPrompt /\ user_input' \in Inputs

\* C20: an input that is a command word in any mix of cases starts no turn and
\* appends nothing to the history; help, history, clear and youtube leave the
\* history unchanged; youtube flips the mode flag and nothing else of the
\* conversation, and no other step changes the flag.
C20_CommandsStartNoTurn ==
    [][/\ (ReadsInput /\ IsWord(user_input', CommandWords)) =>
              /\ pc' \in {"input", "exit"}
              /\ completed_turns' = completed_turns
              /\ Len(chat_history') <= Len(chat_history)
       /\ (ReadsInput /\ IsWord(user_input', Help \cup History \cup Clear \cup Youtube)) =>
              chat_history' = chat_history
       /\ (ReadsInput /\ IsWord(user_input', Youtube)) =>
              /\ youtube_on' = ~youtube_on
              /\ UNCHANGED <<chat_history, running, pc, completed_turns>>
       /\ youtube_on' # youtube_on => (ReadsInput /\ IsWord(user_input', Youtube))
      ]_vars

C20_Witness ==
    /\ ~running
    /\ user_input = <<"Q", "u", "i", "t">>
    /\ ~youtube_on
    /\ completed_turns = 1
    /\ Len(chat_history) = 3

----------------------------------------------------------------------------
(* Properties of the harvester (HarvestSpec).                              *)

\* C8: no stored transcript text contains a non-breaking space or a newline.
C8_StoredTextNormalized ==
    \A i \in 1..Len(transcript_objects) :
        \A j \in 1..Len(transcript_objects[i].transcript) :
            LET text == transcript_objects[i].transcript[j].text
            IN  \A k \in 1..Len(text) : text[k] \notin {NBSP, NL}

\* C9: harvest returns at most num_results items, each with at least one segment.
C9_AtMostNNonEmpty ==
    pc = "returned" =>
        /\ Len(transcript_objects) <= num_results
        /\ \A i \in 1..Len(transcript_objects) : transcript_objects[i].transcript # <<>>

\* the candidates of the search, which of them can be used (an id can be
\* extracted and the fetch succeeds), and the number of usable ones up to each
Candidates == google_search_youtube(soup).value
Usable(cands) == [i \in 1..Len(cands) |-> HasVideoId(cands[i].url) /\ fetch[i].ok]
Rank(usable) == [i \in DOMAIN usable |-> Cardinality({ j \in 1..i : usable[j] })]

\* C10: the harvest is exactly the first num_results candidates, in search order,
\* whose video id can be extracted and whose transcript fetch succeeds.
C10_FirstNUsableInOrder ==
    pc = "returned" =>
        LET cands == Candidates
            usable == Usable(cands)
            rank == Rank(usable)
            chosen == { i \in DOMAIN usable : usable[i] /\ rank[i] <= num_results }
        IN  /\ Len(transcript_objects) = Cardinality(chosen)
            /\ \A i \in chosen :
                /\ transcript_objects[rank[i]].title = cands[i].title
                /\ transcript_objects[rank[i]].video_id = VideoId(cands[i].url)
                /\ Len(transcript_objects[rank[i]].transcript) = Len(fetch[i].segments)

C10_Witness ==
    /\ pc = "returned"
    /\ num_results = 1
    /\ Len(transcript_objects) = 1
    /\ LET cands == Candidates
           usable == Usable(cands)
       IN  /\ Len(cands) = 3
           /\ ~usable[1] /\ usable[2] /\ usable[3]
           /\ VideoId(cands[2].url) # VideoId(cands[3].url)
           /\ transcript_objects[1].video_id = VideoId(cands[2].url)

\* C11: the harvest never holds two items with the same source URL.
C11_NoDuplicateSourceUrl ==
    pc = "returned" =>
        \A i, j \in 1..Len(transcript_objects) :
            transcript_objects[i].url = transcript_objects[j].url => i = j

----------------------------------------------------------------------------
(* Properties of the tier choice (TierSpec).                               *)

\* C12: the heavy model is chosen exactly when the contents of the transient
\* history hold more than 50,000 characters: 50,000 gives light, 50,001 heavy.
C12_HeavyIffAboveThreshold ==
    pc = "selected" =>
        LET count == Len(temp_chat_history[1].content) + Len(temp_chat_history[2].content)
        IN  /\ count >= Threshold + 1 => model = "gpt-4-1106-preview"
            /\ count <= Threshold => model = "gpt-3.5-turbo-1106"

C12_Witness ==
    /\ pc = "selected"
    /\ Len(temp_chat_history[1].content) + Len(temp_chat_history[2].content) = Threshold
    /\ model = "gpt-3.5-turbo-1106"

----------------------------------------------------------------------------
(* Properties of the streaming loop (StreamSpec).                          *)

HasChoices(msg) == msg.choices

\* the fragments of the chunks that arrived, absent content as the empty text
Fragments ==
    LET carrying == SelectSeq(arrived, HasChoices)
    IN  [i \in 1..Len(carrying) |->
            IF carrying[i].none THEN <<>> ELSE carrying[i].content]

RECURSIVE Concat(_)
Concat(texts) == IF texts = <<>> THEN <<>> ELSE Head(texts) \o Concat(Tail(texts))

\* C19: what the streaming loop has emitted is the fragments that arrived, in
\* arrival order and each once, and the text it returns is their concatenation
\* in that order, absent content counting as the empty text.
C19_EmitsInOrderReturnsConcatenation ==
    /\ emitted = Fragments
    /\ (pc = "returned" => response_msg = Concat(Fragments))

C19_Witness ==
    /\ pc = "returned"
    /\ Len(arrived) = 3
    /\ arrived[1] = Chunk(<<"a">>)
    /\ arrived[2] = NoneChunk
    /\ arrived[3] = Chunk(<<"b", "c">>)
    /\ response_msg = <<"a", "b", "c">>

====
